---- MODULE Spec2Model ----
(***************************************************************************)
(* Model of mcp-server-make: the target-name pattern, the path guard, the   *)
(* environment filter, the Makefile parser, list-targets, the resource     *)
(* listing, and the lifecycle of a run-target request                      *)
(* (handlers.handle_call_tool with execution.ExecutionManager, and         *)
(* server.MakeServer._call_tool with MakeServer.run_make_target) on a      *)
(* single asyncio event loop.                                              *)
(*                                                                         *)
(* Strings are sequences of one-character strings.  A path is the sequence *)
(* of its segments below the root, each segment a string.                  *)
(***************************************************************************)
EXTENDS Integers, Sequences, FiniteSets, TLC

VARIABLES
    \* the process and its event loop
    cwd,            \* os.getcwd(): the process-wide working directory
    running,        \* the task the event loop is running now, or NoTask
    \* one run-target request per task
    pc,             \* where each task stands
    impl,           \* "mgr": handlers.py + ExecutionManager; "srv": MakeServer
    arguments,      \* the call as the caller made it
    target,         \* arguments["target"]
    timeout,        \* the timeout given to asyncio.wait_for
    base_dir,       \* ExecutionManager.base_dir / MakeServer.makefile_dir
    original_cwd,   \* ExecutionManager._original_cwd / original_cwd
    outcome,        \* how the request ended
    child,          \* the make process of the request: "none", "running", ...
    returncode,     \* proc.returncode
    stdout,         \* the bytes proc.communicate() collects from the process
    stderr,
    text,           \* the text returned, or the message of the exception
    \* observations of the run, written once
    changed,        \* the task has called os.chdir successfully
    spawnCount,     \* calls of create_subprocess_exec made by the task
    spawnArg,       \* the target argument given to make
    spawnCwd,       \* cwd at the call of create_subprocess_exec
    cwdAtReturn,    \* cwd when control went back to the caller
    \* the path guard, called on its own
    pv_base, pv_subpath, pv_result,
    \* the Makefile of the Makefile directory
    makefile,
    \* get_safe_environment, called on its own
    environ,        \* os.environ
    env,            \* the mapping returned
    ambient,        \* os.environ as it was when the call was made
    \* parse_makefile_targets scanning a text, called on its own
    content,        \* the lines of the text: content.splitlines()
    lineNo,         \* the line the loop is at, counted from 1
    targets,
    current_comment,
    current_description,
    parse_pc,       \* "idle", "scan", "returned"
    returned,       \* the lists the calls made so far have returned
    \* the resource listing
    resources,      \* what the listing gave its caller
    \* reading a resource
    read            \* the URI read and what the read gave its caller

vars == << cwd, running, pc, impl, arguments, target, timeout, base_dir, original_cwd,
           outcome, child, returncode, stdout, stderr, text, changed,
           spawnCount, spawnArg, spawnCwd, cwdAtReturn, pv_base, pv_subpath,
           pv_result, makefile, environ, env, ambient, content, lineNo, targets,
           current_comment, current_description, parse_pc, returned,
           resources, read >>

execVars == << cwd, running, pc, impl, arguments, target, timeout, base_dir,
               original_cwd, outcome, child, returncode, stdout, stderr, text,
               changed, spawnCount, spawnArg, spawnCwd, cwdAtReturn >>

pathVars == << pv_base, pv_subpath, pv_result >>

envVars == << environ, env, ambient >>

parseVars == << content, lineNo, targets, current_comment, current_description,
                parse_pc, returned >>

\* what a request of the tool handler never writes
asideVars == << read, pathVars, makefile, envVars, parseVars, resources >>

\* what a call of the path guard never writes
notPathVars == << read, execVars, makefile, envVars, parseVars, resources >>

\* what a call of get_safe_environment never writes
notEnvVars == << read, execVars, pathVars, makefile, parseVars, resources >>

\* what the scan of a text never writes
notParseVars == << read, execVars, pathVars, makefile, envVars, resources >>

\* what the resource listing never writes
notListVars == << read, execVars, pathVars, makefile, envVars, parseVars >>

\* what the reading of a resource never writes
notReadVars == << resources, execVars, pathVars, makefile, envVars, parseVars >>

----------------------------------------------------------------------------
(* Bounds *)

\* longest caller-supplied target string
MaxTargetLen == 2

\* most lines of a Makefile text
MaxLines == 3

\* longest line of the one-line texts drawn from every string over LineChars
MaxLineLen == 3

\* most lines of the Makefile the tools and the listing read
MaxFileLines == 2

\* deepest base directory and longest subpath, in segments
MaxDepth == 2

\* caller-supplied timeouts lie within this distance of 0, 300 and 3600
TimeoutSpread == 1

----------------------------------------------------------------------------
(* Strings *)

\* All sequences over S of length at most n.
SeqsUpTo(S, n) == UNION { [1..k -> S] : k \in 0..n }

\* str.startswith
StartsWith(s, prefix) ==
    /\ Len(prefix) <= Len(s)
    /\ SubSeq(s, 1, Len(prefix)) = prefix

\* one letter, one digit: representatives of [a-zA-Z0-9]
AlnumChars == {"a", "7"}

\* representatives of [a-zA-Z0-9_-]
NameClassChars == AlnumChars \cup {"_", "-"}

\* The characters caller-supplied targets are drawn from: the name class, a
\* dot (also standing for slash, space and shell metacharacters, which the
\* pattern treats alike) and the line terminator.
TargetChars == NameClassChars \cup {".", "\n"}

\* VALID_TARGET_PATTERN.match(s) for ^[a-zA-Z0-9][a-zA-Z0-9_-]*$ compiled
\* without flags: re.match anchors at the start, and Python's $ matches at
\* the end of the string and also just before a newline that ends it.
VALID_TARGET_PATTERN_match(s) ==
    /\ Len(s) >= 1
    /\ s[1] \in AlnumChars
    /\ \E k \in 1..Len(s) :
          /\ \A i \in 2..k : s[i] \in NameClassChars
          /\ \/ k = Len(s)
             \/ k = Len(s) - 1 /\ s[Len(s)] = "\n"

\* the characters str.strip() removes, of those that occur here
WhitespaceChars == {" ", "\t", "\n"}

RECURSIVE LStrip(_)
LStrip(s) ==
    IF s # <<>> /\ Head(s) \in WhitespaceChars THEN LStrip(Tail(s)) ELSE s

RECURSIVE RStrip(_)
RStrip(s) ==
    IF s # <<>> /\ s[Len(s)] \in WhitespaceChars
    THEN RStrip(SubSeq(s, 1, Len(s) - 1))
    ELSE s

\* str.strip()
Strip(s) == RStrip(LStrip(s))

\* s[i:] of Python, i counted from 0
From(s, i) == SubSeq(s, i + 1, Len(s))

\* The index, from 1, where sub first occurs in s, or 0: str.find(sub) + 1.
IndexOf(s, sub) ==
    LET at == { i \in 1..(Len(s) - Len(sub) + 1) :
                  SubSeq(s, i, i + Len(sub) - 1) = sub }
    IN  IF at = {} THEN 0 ELSE CHOOSE i \in at : \A j \in at : i <= j

\* sub in s
Contains(s, sub) == IndexOf(s, sub) # 0

\* sep.join(parts)
RECURSIVE JoinWith(_, _)
JoinWith(sep, parts) ==
    IF parts = <<>> THEN <<>>
    ELSE IF Len(parts) = 1 THEN parts[1]
    ELSE parts[1] \o sep \o JoinWith(sep, Tail(parts))

----------------------------------------------------------------------------
(* Paths *)

DotDot == <<".", ".">>

\* directory names used below the root
Names == { <<"a">>, <<"b">>, <<"b", "b">> }

RECURSIVE PathStrFrom(_, _)
PathStrFrom(p, i) ==
    IF i > Len(p) THEN <<>> ELSE <<"/">> \o p[i] \o PathStrFrom(p, i + 1)

\* str(path) of an absolute path
PathStr(p) == IF p = <<>> THEN <<"/">> ELSE PathStrFrom(p, 1)

RECURSIVE Collapse(_, _, _)
Collapse(acc, p, i) ==
    IF i > Len(p) THEN acc
    ELSE IF p[i] = DotDot
         THEN Collapse(IF acc = <<>> THEN <<>> ELSE SubSeq(acc, 1, Len(acc) - 1),
                       p, i + 1)
         ELSE Collapse(Append(acc, p[i]), p, i + 1)

\* Path.resolve() of an absolute path in a tree without symbolic links:
\* ".." is collapsed, and ".." at the root stays at the root.
Resolve(p) == Collapse(<<>>, p, 1)

\* A subpath argument: None, or a string naming an absolute or relative path.
NoSubpath == [none |-> TRUE, abs |-> FALSE, segs |-> <<>>]

\* base / subpath: an absolute right operand replaces the left one.
Join(base, subpath) ==
    IF subpath.abs THEN subpath.segs ELSE base \o subpath.segs

\* get_validated_path(base_dir, subpath): the resolved base when subpath is
\* None; otherwise the resolved base / subpath, accepted when its string form
\* starts with the string form of the resolved base.  The SecurityError raised
\* inside the try block is caught by "except Exception" and raised again as a
\* SecurityError, so every failure is a SecurityError.
get_validated_path(base_dir_, subpath) ==
    LET base      == Resolve(base_dir_)
        requested == Resolve(Join(base, subpath))
    IN  IF subpath.none
        THEN [ok |-> TRUE, path |-> base, error |-> "none"]
        ELSE IF ~StartsWith(PathStr(requested), PathStr(base))
             THEN [ok |-> FALSE, path |-> <<>>, error |-> "SecurityError"]
             ELSE [ok |-> TRUE, path |-> requested, error |-> "none"]

\* What "inside the base directory tree" means: base's segments are a prefix
\* of the path's segments.
IsWithin(p, base) ==
    /\ Len(base) <= Len(p)
    /\ SubSeq(p, 1, Len(base)) = base

BasePaths == SeqsUpTo(Names, MaxDepth)

SubPaths ==
    { [none |-> FALSE, abs |-> a, segs |-> s] :
        a \in BOOLEAN, s \in SeqsUpTo(Names \cup {DotDot}, MaxDepth) }
    \cup {NoSubpath}

NotCalled == [ok |-> FALSE, path |-> <<>>, error |-> "not called"]

----------------------------------------------------------------------------
(* The file system and the tasks *)

\* /a, /a/b, /a/bb exist; /b does not.
Home == << <<"a">> >>
DirA == << <<"a">>, <<"b">> >>
DirB == << <<"a">>, <<"b", "b">> >>
MissingDir == << <<"b">> >>

ExistingDirs == { <<>>, Home, DirA, DirB }

\* the value None of _original_cwd
NonePath == << <<"None">> >>

\* the requests that may be in flight together
Execs == {"t1", "t2"}

NoTask == "none"

\* exit statuses of make: success, and "errors were encountered"
ExitCodes == {0, 2}

\* a byte that no UTF-8 text holds
InvalidByte == "0xff"

\* What a make process writes to a pipe: nothing, a word, a word within white
\* space, and bytes that are not UTF-8.
Outputs == { <<>>, <<"o">>, <<" ", "o", "\n">>, <<InvalidByte>> }

\* bytes.decode() raises UnicodeDecodeError on a byte sequence that is not
\* UTF-8, and gives the text of the bytes otherwise.
DecodeOk(bytes) == \A i \in 1..Len(bytes) : bytes[i] # InvalidByte

Decode(bytes) == bytes

----------------------------------------------------------------------------
(* The timeout argument *)

\* arguments.get("timeout", 300)
DefaultTimeout == 300

\* min(..., 3600)
MaxTimeout == 3600

Min(a, b) == IF a <= b THEN a ELSE b

TimeoutInts ==
    UNION { (p - TimeoutSpread)..(p + TimeoutSpread) :
              p \in {0, DefaultTimeout, MaxTimeout} }

\* arguments["timeout"]: absent, an integer, a string that is no number, or
\* null
AbsentTimeout == [kind |-> "absent", val |-> 0]
TextTimeout == [kind |-> "str", val |-> 0]
NullTimeout == [kind |-> "null", val |-> 0]
IntTimeout(v) == [kind |-> "int", val |-> v]

TimeoutArgs ==
    {AbsentTimeout, TextTimeout, NullTimeout}
    \cup { IntTimeout(v) : v \in TimeoutInts }

\* int(arguments.get("timeout", 300)) raises ValueError for a string that is
\* no number and TypeError for None
IntOfTimeoutOk(arg) == arg.kind \notin {"str", "null"}

IntOfTimeout(arg) == IF arg.kind = "absent" THEN DefaultTimeout ELSE arg.val

\* The ceiling forgotten: int(arguments.get("timeout", 300)) as it comes.
ClampedTimeout_NoCeiling(arg) == IntOfTimeout(arg)

\* timeout = min(int(arguments.get("timeout", 300)), 3600)
ClampedTimeout(arg) == Min(IntOfTimeout(arg), MaxTimeout)

----------------------------------------------------------------------------
(* The Makefile parser *)

\* the value None of a description
NoneStr == <<"None">>

\* s.split(sep, 1)[0]
BeforeFirst(s, sep) ==
    LET i == IndexOf(s, sep) IN IF i = 0 THEN s ELSE SubSeq(s, 1, i - 1)

\* s.split(sep, 1)[1], for s that holds sep
AfterFirst(s, sep) == SubSeq(s, IndexOf(s, sep) + Len(sep), Len(s))

\* a or b, for strings and None: a unless it is None or empty
Or(a, b) == IF a # NoneStr /\ a # <<>> THEN a ELSE b

\* the variables of the loop before its first line
ScanStart ==
    [targets |-> <<>>, current_comment |-> <<>>, current_description |-> NoneStr]

\* The accumulated comments put before the inline description.
ScanLine_CommentFirst(st, raw, n) ==
    LET line == Strip(raw)
    IN  IF StartsWith(line, <<"#">>)
        THEN [st EXCEPT !.current_comment = Append(@, Strip(From(line, 1)))]
        ELSE IF Contains(line, <<":">>) /\ ~StartsWith(line, <<"\t">>)
        THEN LET name == Strip(BeforeFirst(line, <<":">>))
                 inline == IF Contains(line, <<"#", "#">>)
                           THEN Strip(AfterFirst(line, <<"#", "#">>))
                           ELSE st.current_description
                 description ==
                     Or(Or(JoinWith(<<" ">>, st.current_comment), inline),
                        NoneStr)
             IN  [targets |->
                      IF VALID_TARGET_PATTERN_match(name)
                      THEN Append(st.targets,
                                  [name |-> name, description |-> description,
                                   line |-> n])
                      ELSE st.targets,
                  current_comment |-> <<>>,
                  current_description |-> NoneStr]
        ELSE [st EXCEPT !.current_comment = <<>>]

\* The text after "##" is the description whenever the line holds "##", empty
\* or not.
ScanLine_NoFallback(st, raw, n) ==
    LET line == Strip(raw)
    IN  IF StartsWith(line, <<"#">>)
        THEN [st EXCEPT !.current_comment = Append(@, Strip(From(line, 1)))]
        ELSE IF Contains(line, <<":">>) /\ ~StartsWith(line, <<"\t">>)
        THEN LET name == Strip(BeforeFirst(line, <<":">>))
                 description ==
                     IF Contains(line, <<"#", "#">>)
                     THEN Strip(AfterFirst(line, <<"#", "#">>))
                     ELSE Or(JoinWith(<<" ">>, st.current_comment), NoneStr)
             IN  [targets |->
                      IF VALID_TARGET_PATTERN_match(name)
                      THEN Append(st.targets,
                                  [name |-> name, description |-> description,
                                   line |-> n])
                      ELSE st.targets,
                  current_comment |-> <<>>,
                  current_description |-> NoneStr]
        ELSE [st EXCEPT !.current_comment = <<>>]

\* The accumulators are reset only when a target was added.
ScanLine_ResetOnEmit(st, raw, n) ==
    LET line == Strip(raw)
    IN  IF StartsWith(line, <<"#">>)
        THEN [st EXCEPT !.current_comment = Append(@, Strip(From(line, 1)))]
        ELSE IF Contains(line, <<":">>) /\ ~StartsWith(line, <<"\t">>)
        THEN LET name == Strip(BeforeFirst(line, <<":">>))
                 inline == IF Contains(line, <<"#", "#">>)
                           THEN Strip(AfterFirst(line, <<"#", "#">>))
                           ELSE st.current_description
                 description ==
                     Or(Or(inline, JoinWith(<<" ">>, st.current_comment)),
                        NoneStr)
             IN  IF VALID_TARGET_PATTERN_match(name)
                 THEN [targets |->
                           Append(st.targets,
                                  [name |-> name, description |-> description,
                                   line |-> n]),
                       current_comment |-> <<>>,
                       current_description |-> NoneStr]
                 ELSE [st EXCEPT !.current_description = inline]
        ELSE [st EXCEPT !.current_comment = <<>>]

\* A name that is already in the list is not added again.
ScanLine_NoDuplicates(st, raw, n) ==
    LET line == Strip(raw)
    IN  IF StartsWith(line, <<"#">>)
        THEN [st EXCEPT !.current_comment = Append(@, Strip(From(line, 1)))]
        ELSE IF Contains(line, <<":">>) /\ ~StartsWith(line, <<"\t">>)
        THEN LET name == Strip(BeforeFirst(line, <<":">>))
                 inline == IF Contains(line, <<"#", "#">>)
                           THEN Strip(AfterFirst(line, <<"#", "#">>))
                           ELSE st.current_description
                 description ==
                     Or(Or(inline, JoinWith(<<" ">>, st.current_comment)),
                        NoneStr)
             IN  [targets |->
                      IF /\ VALID_TARGET_PATTERN_match(name)
                         /\ \A i \in 1..Len(st.targets) :
                                st.targets[i].name # name
                      THEN Append(st.targets,
                                  [name |-> name, description |-> description,
                                   line |-> n])
                      ELSE st.targets,
                  current_comment |-> <<>>,
                  current_description |-> NoneStr]
        ELSE [st EXCEPT !.current_comment = <<>>]

\* One turn of the loop of parse_makefile_targets, on line n of the text.  The
\* line is stripped first, so the test for a leading tab never fails.  Each
\* target also keeps the number of the line that gave it.
ScanLine(st, raw, n) ==
    LET line == Strip(raw)
    IN  IF StartsWith(line, <<"#">>)
        THEN [st EXCEPT !.current_comment = Append(@, Strip(From(line, 1)))]
        ELSE IF Contains(line, <<":">>) /\ ~StartsWith(line, <<"\t">>)
        THEN LET name == Strip(BeforeFirst(line, <<":">>))
                 inline == IF Contains(line, <<"#", "#">>)
                           THEN Strip(AfterFirst(line, <<"#", "#">>))
                           ELSE st.current_description
                 description ==
                     Or(Or(inline, JoinWith(<<" ">>, st.current_comment)),
                        NoneStr)
             IN  [targets |->
                      IF VALID_TARGET_PATTERN_match(name)
                      THEN Append(st.targets,
                                  [name |-> name, description |-> description,
                                   line |-> n])
                      ELSE st.targets,
                  current_comment |-> <<>>,
                  current_description |-> NoneStr]
        ELSE [st EXCEPT !.current_comment = <<>>]

RECURSIVE ScanFrom(_, _, _)
ScanFrom(st, lines, n) ==
    IF n > Len(lines) THEN st
    ELSE ScanFrom(ScanLine(st, lines[n], n), lines, n + 1)

\* the list parse_makefile_targets returns for a text that could be read
TargetsOf(lines) == ScanFrom(ScanStart, lines, 1).targets

\* Lines of a Makefile: "# c", "#", "", "a:", "a: 7 ## d", "a:##", a recipe
\* line, a recipe line with a colon, a pattern rule, a special target, an
\* indented directive without a colon, an assignment with ":=", an assignment
\* with "=", and an indented target.
SampleLines ==
    { <<"#", " ", "c">>, <<"#">>, <<>>, <<"a", ":">>,
      <<"a", ":", " ", "7", " ", "#", "#", " ", "d">>,
      <<"a", ":", "#", "#">>,
      <<"\t", "a">>, <<"\t", "7", ":">>,
      <<"%", ".", "a", ":">>, <<".", "a", ":", "7">>, <<" ", ".", "a">>,
      <<"a", " ", ":", "=", " ", "7">>, <<"a", "=", "7">>,
      <<" ", "7", "a", " ", ":", " ", "a">> }

LineChars == {"a", ":", "#", " ", "\t"}

\* the texts scanned: every text of sample lines, and every one-line text
Texts ==
    SeqsUpTo(SampleLines, MaxLines)
    \cup { <<line>> : line \in SeqsUpTo(LineChars, MaxLineLen) }

\* targets kept in a list that outlives the call
ParseStart_NoReset ==
    /\ parse_pc \in {"idle", "returned"}
    /\ Len(returned) < 2
    /\ current_comment' = <<>>
    /\ current_description' = NoneStr
    /\ lineNo' = 1
    /\ parse_pc' = "scan"
    /\ UNCHANGED << content, targets, returned >>
    /\ UNCHANGED notParseVars

\* parse_makefile_targets is called on the text: the three variables of the
\* loop are made anew.
ParseStart ==
    /\ parse_pc \in {"idle", "returned"}
    /\ Len(returned) < 2
    /\ targets' = ScanStart.targets
    /\ current_comment' = ScanStart.current_comment
    /\ current_description' = ScanStart.current_description
    /\ lineNo' = 1
    /\ parse_pc' = "scan"
    /\ UNCHANGED << content, returned >>
    /\ UNCHANGED notParseVars

\* one turn of the loop
ParseLine ==
    /\ parse_pc = "scan"
    /\ lineNo <= Len(content)
    /\ LET st == ScanLine([targets |-> targets,
                           current_comment |-> current_comment,
                           current_description |-> current_description],
                          content[lineNo], lineNo)
       IN  /\ targets' = st.targets
           /\ current_comment' = st.current_comment
           /\ current_description' = st.current_description
    /\ lineNo' = lineNo + 1
    /\ UNCHANGED << content, parse_pc, returned >>
    /\ UNCHANGED notParseVars

\* return targets
ParseReturn ==
    /\ parse_pc = "scan"
    /\ lineNo > Len(content)
    /\ returned' = Append(returned, targets)
    /\ parse_pc' = "returned"
    /\ UNCHANGED << content, lineNo, targets, current_comment,
                    current_description >>
    /\ UNCHANGED notParseVars

----------------------------------------------------------------------------
(* The Makefile on disk, list-targets and the resource listing *)

\* no Makefile in the directory
NoFile == << <<"ENOENT">> >>

\* a Makefile that is there and that read_text() fails on: no permission to
\* read it, or bytes that are not UTF-8
Unreadable == << <<"EACCES">> >>

Files == SeqsUpTo(SampleLines, MaxFileLines) \cup {NoFile, Unreadable}

\* path.exists()
Exists(file) == file # NoFile

\* read_makefile succeeds
Readable(file) == file \notin {NoFile, Unreadable}

\* f"{t['name']}: {t['description'] or 'No description'}"
TargetLine(t) ==
    t.name \o <<":", " ">> \o Or(t.description, <<"No description">>)

\* "\n".join(... for t in targets)
Listing(ts) == JoinWith(<<"\n">>, [i \in 1..Len(ts) |-> TargetLine(ts[i])])

\* re.compile(pattern) for the patterns used here: a pattern of characters
\* of the name class compiles and stands for itself; "(" does not compile.
CompileOk(pattern) == \A i \in 1..Len(pattern) : pattern[i] \in NameClassChars

\* pattern_re.match in place of pattern_re.search: only at the start
Matching_AtStart(ts, pattern) ==
    SelectSeq(ts, LAMBDA t : StartsWith(t.name, pattern))

\* [t for t in targets if pattern_re.search(t["name"])]
Matching(ts, pattern) == SelectSeq(ts, LAMBDA t : Contains(t.name, pattern))

\* The list-targets branch of handle_call_tool / MakeServer._call_tool, once
\* the arguments were found not empty: the outcome and the text.
ListTargets(pattern, file) ==
    IF ~Readable(file)
    THEN [how |-> "ReadFailed", text |-> <<"Failed to read Makefile: ">>]
    ELSE IF pattern = <<"*">>
    THEN [how |-> "Listed", text |-> Listing(TargetsOf(file))]
    ELSE IF ~CompileOk(pattern)
    THEN [how |-> "InvalidPattern", text |-> <<"Invalid pattern: ">> \o pattern]
    ELSE [how |-> "Listed",
          text |-> Listing(Matching(TargetsOf(file), pattern))]

MakefileUri == "make://current/makefile"
TargetsUri == "make://targets"

\* not called yet
NotListed == [raised |-> "not called", uris |-> <<>>]

\* handle_list_resources ("mgr") and MakeServer._list_resources ("srv"): the
\* Makefile resource when the Makefile exists, then the targets resource when
\* parsing gives a target.  An exception of the parse is printed and the list
\* built so far returned by the first, turned into a ValueError by the second.
ListResources(i) ==
    /\ resources = NotListed
    /\ resources' =
          IF ~Exists(makefile)
          THEN [raised |-> "none", uris |-> <<>>]
          ELSE IF ~Readable(makefile)
          THEN IF i = "mgr"
               THEN [raised |-> "none", uris |-> <<MakefileUri>>]
               ELSE [raised |-> "ValueError", uris |-> <<>>]
          ELSE IF TargetsOf(makefile) # <<>>
          THEN [raised |-> "none", uris |-> <<MakefileUri, TargetsUri>>]
          ELSE [raised |-> "none", uris |-> <<MakefileUri>>]
    /\ UNCHANGED notListVars

----------------------------------------------------------------------------
(* Reading a resource *)

\* A URI is what urlparse(str(uri)) makes of it: scheme, netloc and path.  A
\* path is the sequence of the pieces between its slashes: <<>> is "", <<"",
\* "">> is "/", <<"", "targets">> is "/targets".
Uris ==
    { [scheme |-> sc, netloc |-> n, path |-> pa] :
        sc \in {"make", "MAKE", "http"},
        n \in {"localhost", "current", "targets"},
        pa \in { <<>>, <<"", "">>, <<"", "targets">>, <<"", "Targets", "">>,
                 <<"", "", "targets">>, <<"", "makefile">>,
                 <<"", "current", "makefile">>, <<"", "x">> } }

\* str.lower(), on the words used here; urlparse lowers the scheme so
Lower(word) ==
    CASE word = "Targets" -> "targets"
      [] word = "MAKE"    -> "make"
      [] word = "MAKE:"   -> "make:"
      [] OTHER            -> word

\* path.strip("/")
RECURSIVE StripSlash(_)
StripSlash(pa) ==
    IF pa # <<>> /\ Head(pa) = "" THEN StripSlash(Tail(pa))
    ELSE IF pa # <<>> /\ pa[Len(pa)] = ""
    THEN StripSlash(SubSeq(pa, 1, Len(pa) - 1))
    ELSE pa

\* normalize_uri_path(uri): fails without a path, else the path stripped of
\* its outer slashes, in lower case.
normalize_uri_path(uri) ==
    IF uri.path = <<>> \/ uri.path = <<"", "">>
    THEN [ok |-> FALSE, path |-> <<>>]
    ELSE LET pa == StripSlash(uri.path)
         IN  [ok |-> TRUE, path |-> [k \in 1..Len(pa) |-> Lower(pa[k])]]

\* create_make_url(uri[7:] if uri.startswith("make://") else uri), of
\* MakeServer._read_resource for a string whose scheme urlparse gives as
\* make: what follows "make://", or the whole string, becomes the path of a
\* URI on localhost.
create_make_url(uri) ==
    LET rest == IF uri.scheme = "make"
                THEN <<uri.netloc>>
                     \o (IF uri.path = <<>> THEN <<>> ELSE Tail(uri.path))
                ELSE <<"MAKE:", "", uri.netloc>>
                     \o (IF uri.path = <<>> THEN <<>> ELSE Tail(uri.path))
        pa   == StripSlash(rest)
    IN  [scheme |-> "make", netloc |-> "localhost",
         path |-> IF pa = <<>> THEN <<"", "">> ELSE <<"">> \o pa]

\* The blank check left out.
validate_makefile_syntax_NoBlankCheck(lines) ==
    \A k \in 1..Len(lines) :
        ~(StartsWith(Strip(lines[k]), <<".">>) /\ ~Contains(lines[k], <<":">>))

\* validate_makefile_syntax(content) does not raise: content.strip() is not
\* empty, and no line both starts with "." once stripped and holds no ":".
validate_makefile_syntax(lines) ==
    /\ \E k \in 1..Len(lines) : Strip(lines[k]) # <<>>
    /\ \A k \in 1..Len(lines) :
          ~(StartsWith(Strip(lines[k]), <<".">>) /\ ~Contains(lines[k], <<":">>))

\* not called yet
NotRead ==
    [impl |-> "none", uri |-> [scheme |-> "", netloc |-> "", path |-> <<>>],
     isStr |-> FALSE, norm |-> <<>>, ok |-> FALSE, content |-> <<>>]

\* handle_read_resource ("mgr") and MakeServer._read_resource ("srv"), given
\* the URI as a string or as a parsed URL.  The first checks the scheme of
\* every URI; the second checks it, and rebuilds the URI, for a string only.
\* Every failure reaches the caller as a ValueError (ok is FALSE).  The
\* targets resource is str(targets).
ReadResource(i, uri, isStr) ==
    /\ read = NotRead
    /\ LET checked == i = "mgr" \/ isStr
           u       == IF i = "srv" /\ isStr THEN create_make_url(uri) ELSE uri
           n       == normalize_uri_path(u)
           failed  == [impl |-> i, uri |-> uri, isStr |-> isStr,
                       norm |-> n.path, ok |-> FALSE, content |-> <<>>]
       IN  read' =
             IF checked /\ Lower(uri.scheme) # "make" THEN failed
             ELSE IF ~n.ok THEN failed
             ELSE IF n.path = <<"current", "makefile">>
             THEN IF Readable(makefile) /\ validate_makefile_syntax(makefile)
                  THEN [failed EXCEPT !.ok = TRUE, !.content = makefile]
                  ELSE failed
             ELSE IF n.path = <<"targets">>
             THEN IF Readable(makefile)
                  THEN [failed EXCEPT !.ok = TRUE,
                                      !.content = TargetsOf(makefile)]
                  ELSE failed
             ELSE failed
    /\ UNCHANGED notReadVars

----------------------------------------------------------------------------
(* A call of the tool handler *)

\* One call: which implementation serves it, the tool name, the arguments
\* (empty: no argument object or an empty one), and the Makefile directory the
\* handler or server was given.
Call(i, n, empty, hasTarget, t, to, d) ==
    [impl |-> i, name |-> n, empty |-> empty, hasTarget |-> hasTarget,
     target |-> t, timeout |-> to, dir |-> d, hasPattern |-> FALSE,
     pattern |-> <<>>]

\* A call that may carry a pattern; without one the arguments are empty, or
\* hold some other key.
PatternCall(i, n, empty, hasPattern, p) ==
    [Call(i, n, empty, FALSE, <<>>, AbsentTimeout, DirA)
        EXCEPT !.hasPattern = hasPattern, !.pattern = p]

\* the patterns given: "*", two plain ones, and one that does not compile
Patterns == { <<"*">>, <<"a">>, <<"7">>, <<"(">> }

\* The calls of the catalogue specification: list-targets and an unknown
\* tool, with a pattern, with some other argument, and with no argument.
ListCalls ==
    UNION { { PatternCall(i, n, FALSE, TRUE, p) : p \in Patterns }
            \cup { PatternCall(i, n, FALSE, FALSE, <<>>),
                   PatternCall(i, n, TRUE, FALSE, <<>>) }
          : i \in {"mgr", "srv"}, n \in {"list-targets", "no-such-tool"} }

\* handle_call_tool takes its Makefile directory from its caller, unchecked;
\* MakeServer.__init__ accepts only a directory that holds a Makefile.
DirsOf(i, mgrDirs, srvDirs) == IF i = "mgr" THEN mgrDirs ELSE srvDirs

CallsOver(names, timeouts, mgrDirs, srvDirs) ==
    UNION { { Call(i, "run-target", FALSE, TRUE, t, to, d) :
                t \in names, to \in timeouts,
                d \in DirsOf(i, mgrDirs, srvDirs) }
            \cup { Call(i, "run-target", TRUE, FALSE, <<>>, AbsentTimeout, DirA),
                   Call(i, "run-target", FALSE, FALSE, <<>>, AbsentTimeout, DirA),
                   Call(i, "no-such-tool", FALSE, TRUE, <<"a">>, AbsentTimeout, DirA) }
          : i \in {"mgr", "srv"} }

\* The calls of the concurrent specification: a valid and an invalid name, the
\* default timeout and a timeout of zero.
ConcCalls ==
    CallsOver({ <<"a">>, <<".">> }, {AbsentTimeout, IntTimeout(0)},
              {DirA, DirB, MissingDir}, {DirA, DirB})

\* The calls of the single-request specification: every target string within
\* the bounds with the default timeout and with a timeout of zero, and every
\* timeout argument within the bounds with a valid and with an invalid name.
RunCalls ==
    CallsOver(SeqsUpTo(TargetChars, MaxTargetLen),
              {AbsentTimeout, IntTimeout(0)}, {DirA, MissingDir}, {DirA})
    \cup CallsOver({ <<"a">>, <<".">> }, TimeoutArgs,
                   {DirA, MissingDir}, {DirA})

\* before any call
NoCall == Call("mgr", "none", TRUE, FALSE, <<>>, AbsentTimeout, DirA)

\* The request ends: control goes back to the caller with this outcome and
\* this text.
Return(e, how, msg) ==
    /\ pc' = [pc EXCEPT ![e] = "done"]
    /\ outcome' = [outcome EXCEPT ![e] = how]
    /\ text' = [text EXCEPT ![e] = msg]
    /\ cwdAtReturn' = [cwdAtReturn EXCEPT ![e] = cwd']
    /\ running' = NoTask

\* handle_call_tool / MakeServer._call_tool up to the start of the execution:
\* the argument checks, the tool dispatch, and the timeout.
CallTool(e, c) ==
    /\ pc[e] = "idle"
    /\ UNCHANGED asideVars
    /\ running = NoTask
    /\ impl' = [impl EXCEPT ![e] = c.impl]
    /\ arguments' = [arguments EXCEPT ![e] = c]
    /\ UNCHANGED << cwd, original_cwd, child, returncode, stdout, stderr,
                    changed, spawnCount, spawnArg, spawnCwd >>
    /\ IF c.empty
       THEN /\ Return(e, "ArgumentsRequired", <<"Tool arguments required">>)
            /\ UNCHANGED << target, timeout, base_dir >>
       ELSE IF c.name = "list-targets"
       THEN /\ LET pattern == IF c.hasPattern THEN c.pattern ELSE <<"*">>
                   r       == ListTargets(pattern, makefile)
               IN  Return(e, r.how, r.text)
            /\ UNCHANGED << target, timeout, base_dir >>
       ELSE IF c.name # "run-target"
       THEN /\ Return(e, "UnknownTool", <<"Unknown tool: ", c.name>>)
            /\ UNCHANGED << target, timeout, base_dir >>
       ELSE IF ~c.hasTarget
       THEN /\ Return(e, "TargetRequired", <<"Target name required">>)
            /\ UNCHANGED << target, timeout, base_dir >>
       ELSE IF ~IntOfTimeoutOk(c.timeout)
       THEN /\ IF c.timeout.kind = "null"
               THEN Return(e, "BadTimeoutType",
                           <<"int() argument must be a string or a number">>)
               ELSE Return(e, "BadTimeout",
                           <<"invalid literal for int() with base 10">>)
            /\ target' = [target EXCEPT ![e] = c.target]
            /\ UNCHANGED << timeout, base_dir >>
       ELSE /\ target' = [target EXCEPT ![e] = c.target]
            /\ timeout' = [timeout EXCEPT ![e] = ClampedTimeout(c.timeout)]
            /\ base_dir' = [base_dir EXCEPT ![e] = c.dir]
            /\ pc' = [pc EXCEPT ![e] =
                        IF c.impl = "mgr" THEN "aenter" ELSE "run_make_target"]
            /\ running' = e
            /\ UNCHANGED << outcome, text, cwdAtReturn >>

\* The class of the exception behind each outcome, where it is raised.
RaisedClass(how) ==
    CASE how \in {"ArgumentsRequired", "UnknownTool", "TargetRequired",
                  "BadTimeout", "InvalidTarget", "InvalidPattern"}
                                       -> "ValueError"
      [] how = "DecodeError"           -> "UnicodeDecodeError"
      [] how = "BadTimeoutType"        -> "TypeError"
      [] how \in {"OSError", "SpawnFailed"}
                                       -> "OSError"
      [] how \in {"TargetExecutionFailed", "ExecutionTimeout", "ReadFailed"}
                                       -> "MakefileError"
      [] how = "SecurityError"         -> "SecurityError"
      [] how = "Cancelled"             -> "CancelledError"
      [] OTHER                         -> "none"

\* What the caller of the tool handler gets: handle_call_tool wraps its
\* ExecutionManager block in "except (MakefileError, SecurityError) as e:
\* raise ValueError(str(e))"; MakeServer._call_tool awaits run_make_target
\* outside any try.  "none": the call returned.
CallerSees(i, how) ==
    IF /\ i = "mgr"
       /\ how \in {"TargetExecutionFailed", "ExecutionTimeout", "SecurityError"}
    THEN "ValueError"
    ELSE RaisedClass(how)

\* isinstance(exc, ValueError): UnicodeDecodeError is a subclass of ValueError
IsValueError(class) == class \in {"ValueError", "UnicodeDecodeError"}

----------------------------------------------------------------------------
(* ExecutionManager *)

\* ExecutionManager.__aenter__: record the working directory, validate the
\* Makefile directory, change into it.  An exception here leaves the
\* "async with" before its body, so __aexit__ does not run.
AEnter(e) ==
    /\ pc[e] = "aenter"
    /\ UNCHANGED asideVars
    /\ running = e
    /\ original_cwd' = [original_cwd EXCEPT ![e] = cwd]
    /\ UNCHANGED << impl, arguments, target, timeout, base_dir, child, returncode,
                    stdout, stderr, spawnCount, spawnArg, spawnCwd >>
    /\ LET makefile_dir == get_validated_path(base_dir[e], NoSubpath)
       IN  IF ~makefile_dir.ok
           THEN /\ UNCHANGED << cwd, changed >>
                /\ Return(e, "SecurityError", <<"Invalid path: ">>)
           ELSE IF makefile_dir.path \notin ExistingDirs
           THEN /\ UNCHANGED << cwd, changed >>
                /\ Return(e, "OSError", <<"No such file or directory: ">>
                                           \o PathStr(makefile_dir.path))
           ELSE /\ cwd' = makefile_dir.path
                /\ changed' = [changed EXCEPT ![e] = TRUE]
                /\ pc' = [pc EXCEPT ![e] = "run_target"]
                /\ UNCHANGED << running, outcome, text, cwdAtReturn >>

\* run_target without its name check: every name goes on to the spawn.
RunTarget_Unchecked(e) ==
    /\ pc[e] = "run_target"
    /\ running = e
    /\ pc' = [pc EXCEPT ![e] = "spawn"]
    /\ UNCHANGED << cwd, running, impl, arguments, target, timeout, base_dir,
                    original_cwd, outcome, child, returncode, stdout, stderr,
                    text, changed, spawnCount, spawnArg, spawnCwd, cwdAtReturn,
                    asideVars >>

\* ExecutionManager.run_target, its first statement: the name check.
RunTarget(e) ==
    /\ pc[e] = "run_target"
    /\ UNCHANGED asideVars
    /\ running = e
    /\ UNCHANGED << cwd, running, impl, arguments, target, timeout, base_dir,
                    original_cwd, child, returncode, stdout, stderr, changed,
                    spawnCount, spawnArg, spawnCwd, cwdAtReturn >>
    /\ IF ~VALID_TARGET_PATTERN_match(target[e])
       THEN /\ outcome' = [outcome EXCEPT ![e] = "InvalidTarget"]
            /\ text' = [text EXCEPT ![e] =
                          <<"Invalid target name: ">> \o target[e]]
            /\ pc' = [pc EXCEPT ![e] = "restore"]
       ELSE /\ pc' = [pc EXCEPT ![e] = "spawn"]
            /\ UNCHANGED << outcome, text >>

----------------------------------------------------------------------------
(* MakeServer *)

\* run_make_target without os.chdir: make starts wherever the server is.
RunMakeTarget_NoChdir(e) ==
    /\ pc[e] = "run_make_target"
    /\ UNCHANGED asideVars
    /\ running = e
    /\ UNCHANGED << impl, arguments, target, timeout, base_dir, child, returncode,
                    stdout, stderr, spawnCount, spawnArg, spawnCwd >>
    /\ IF ~VALID_TARGET_PATTERN_match(target[e])
       THEN /\ UNCHANGED << cwd, original_cwd, changed >>
            /\ Return(e, "InvalidTarget",
                      <<"Invalid target name: ">> \o target[e])
       ELSE /\ original_cwd' = [original_cwd EXCEPT ![e] = cwd]
            /\ changed' = [changed EXCEPT ![e] = TRUE]
            /\ pc' = [pc EXCEPT ![e] = "spawn"]
            /\ UNCHANGED << cwd, running, outcome, text, cwdAtReturn >>

\* MakeServer.run_make_target up to the spawn: the name check, before any
\* directory change, then the directory change inside the try block.
RunMakeTarget(e) ==
    /\ pc[e] = "run_make_target"
    /\ UNCHANGED asideVars
    /\ running = e
    /\ UNCHANGED << impl, arguments, target, timeout, base_dir, child, returncode,
                    stdout, stderr, spawnCount, spawnArg, spawnCwd >>
    /\ IF ~VALID_TARGET_PATTERN_match(target[e])
       THEN /\ UNCHANGED << cwd, original_cwd, changed >>
            /\ Return(e, "InvalidTarget",
                      <<"Invalid target name: ">> \o target[e])
       ELSE /\ original_cwd' = [original_cwd EXCEPT ![e] = cwd]
            /\ cwd' = base_dir[e]
            /\ changed' = [changed EXCEPT ![e] = TRUE]
            /\ pc' = [pc EXCEPT ![e] = "spawn"]
            /\ UNCHANGED << running, outcome, text, cwdAtReturn >>

----------------------------------------------------------------------------
(* The child process, in both implementations *)

\* asyncio.create_subprocess_exec("make", target, ...): the process is
\* created in the current working directory before the coroutine first
\* suspends, or the call raises OSError (no make executable) at once.
Spawn(e) ==
    /\ pc[e] = "spawn"
    /\ UNCHANGED asideVars
    /\ running = e
    /\ spawnCount' = [spawnCount EXCEPT ![e] = @ + 1]
    /\ spawnArg' = [spawnArg EXCEPT ![e] = target[e]]
    /\ spawnCwd' = [spawnCwd EXCEPT ![e] = cwd]
    /\ UNCHANGED << cwd, impl, arguments, target, timeout, base_dir, original_cwd,
                    returncode, stdout, stderr, changed, cwdAtReturn >>
    /\ \/ /\ child' = [child EXCEPT ![e] = "running"]
          /\ pc' = [pc EXCEPT ![e] = "await_spawn"]
          /\ running' = NoTask
          /\ UNCHANGED << outcome, text >>
       \/ /\ outcome' = [outcome EXCEPT ![e] = "SpawnFailed"]
          /\ text' = [text EXCEPT ![e] = <<"No such file or directory: 'make'">>]
          /\ pc' = [pc EXCEPT ![e] = "restore"]
          /\ UNCHANGED << child, running >>

\* create_subprocess_exec returns; the task calls
\* asyncio.wait_for(proc.communicate(), timeout) and suspends in it.
WaitFor(e) ==
    /\ pc[e] = "await_spawn"
    /\ UNCHANGED asideVars
    /\ running = NoTask
    /\ pc' = [pc EXCEPT ![e] = "await_communicate"]
    /\ UNCHANGED << cwd, running, impl, arguments, target, timeout, base_dir,
                    original_cwd, outcome, child, returncode, stdout, stderr,
                    text, changed, spawnCount, spawnArg, spawnCwd, cwdAtReturn >>

\* The make process ends by itself, whatever its task is doing, having
\* written out to its standard output and err to its standard error.
ChildExit(e, code, out, err) ==
    /\ child[e] = "running"
    /\ UNCHANGED asideVars
    /\ child' = [child EXCEPT ![e] = "exited"]
    /\ returncode' = [returncode EXCEPT ![e] = code]
    /\ stdout' = [stdout EXCEPT ![e] = out]
    /\ stderr' = [stderr EXCEPT ![e] = err]
    /\ UNCHANGED << cwd, running, pc, impl, arguments, target, timeout, base_dir,
                    original_cwd, outcome, text, changed, spawnCount, spawnArg,
                    spawnCwd, cwdAtReturn >>

\* f"Target execution failed: {error_msg}"
FailureMessage(error_msg) == <<"Target execution failed: ">> \o error_msg

\* proc.communicate() completes within the timeout: the exit code decides.
\* With a non-zero code stderr.decode().strip() goes into the MakefileError,
\* with zero stdout.decode() is returned; decode() itself may raise.  With a
\* timeout <= 0 wait_for does not wait for communicate().
Communicated(e) ==
    /\ pc[e] = "await_communicate"
    /\ UNCHANGED asideVars
    /\ running = NoTask
    /\ child[e] = "exited"
    /\ timeout[e] > 0
    /\ LET bytes == IF returncode[e] # 0 THEN stderr[e] ELSE stdout[e]
       IN  IF ~DecodeOk(bytes)
           THEN /\ outcome' = [outcome EXCEPT ![e] = "DecodeError"]
                /\ text' = [text EXCEPT ![e] =
                              <<"'utf-8' codec can't decode byte">>]
           ELSE IF returncode[e] # 0
           THEN /\ outcome' = [outcome EXCEPT ![e] = "TargetExecutionFailed"]
                /\ text' = [text EXCEPT ![e] =
                              FailureMessage(Strip(Decode(bytes)))]
           ELSE /\ outcome' = [outcome EXCEPT ![e] = "Completed"]
                /\ text' = [text EXCEPT ![e] = Decode(bytes)]
    /\ pc' = [pc EXCEPT ![e] = "restore"]
    /\ running' = e
    /\ UNCHANGED << cwd, impl, arguments, target, timeout, base_dir, original_cwd, child,
                    returncode, stdout, stderr, changed, spawnCount, spawnArg,
                    spawnCwd, cwdAtReturn >>

\* wait_for without a timer: only a timeout that is already over ends the
\* wait for a process that is still running.
TimedOut_NoTimer(e) ==
    /\ pc[e] = "await_communicate"
    /\ UNCHANGED asideVars
    /\ running = NoTask
    /\ timeout[e] <= 0
    /\ outcome' = [outcome EXCEPT ![e] = "ExecutionTimeout"]
    /\ text' = [text EXCEPT ![e] = <<"Target execution exceeded ">>]
    /\ pc' = [pc EXCEPT ![e] = "restore"]
    /\ running' = e
    /\ UNCHANGED << cwd, impl, arguments, target, timeout, base_dir, original_cwd, child,
                    returncode, stdout, stderr, changed, spawnCount, spawnArg,
                    spawnCwd, cwdAtReturn >>

\* wait_for gives up: it cancels communicate() and raises TimeoutError, which
\* "except asyncio.TimeoutError" turns into a MakefileError.  Nothing signals
\* the process.
TimedOut(e) ==
    /\ pc[e] = "await_communicate"
    /\ UNCHANGED asideVars
    /\ running = NoTask
    /\ child[e] = "running" \/ timeout[e] <= 0
    /\ outcome' = [outcome EXCEPT ![e] = "ExecutionTimeout"]
    /\ text' = [text EXCEPT ![e] =
                  <<"Target execution exceeded ", ToString(timeout[e]),
                    "s timeout">>]
    /\ pc' = [pc EXCEPT ![e] = "restore"]
    /\ running' = e
    /\ UNCHANGED << cwd, impl, arguments, target, timeout, base_dir, original_cwd, child,
                    returncode, stdout, stderr, changed, spawnCount, spawnArg,
                    spawnCwd, cwdAtReturn >>

\* The caller cancels the request while its task is suspended: CancelledError
\* is raised at the await.  Inside create_subprocess_exec asyncio closes the
\* transport, which kills the process; inside wait_for only communicate() is
\* cancelled.  No handler of the request catches CancelledError.
Cancel(e) ==
    /\ pc[e] \in {"await_spawn", "await_communicate"}
    /\ UNCHANGED asideVars
    /\ running = NoTask
    /\ outcome' = [outcome EXCEPT ![e] = "Cancelled"]
    /\ child' = [child EXCEPT ![e] =
                   IF pc[e] = "await_spawn" /\ @ = "running" THEN "killed" ELSE @]
    /\ pc' = [pc EXCEPT ![e] = "restore"]
    /\ running' = e
    /\ UNCHANGED << cwd, impl, arguments, target, timeout, base_dir, original_cwd,
                    returncode, stdout, stderr, text, changed, spawnCount,
                    spawnArg, spawnCwd, cwdAtReturn >>

\* The restore placed after the result instead of in __aexit__ / finally: a
\* request that fails goes back to its caller without it.
Restore_OnlyOnSuccess(e) ==
    /\ pc[e] = "restore"
    /\ running = e
    /\ cwd' = IF outcome[e] = "Completed" THEN original_cwd[e] ELSE cwd
    /\ pc' = [pc EXCEPT ![e] = "done"]
    /\ cwdAtReturn' = [cwdAtReturn EXCEPT ![e] = cwd']
    /\ running' = NoTask
    /\ UNCHANGED << impl, arguments, target, timeout, base_dir, original_cwd,
                    outcome, child, returncode, stdout, stderr, text, changed,
                    spawnCount, spawnArg, spawnCwd, asideVars >>

\* ExecutionManager.__aexit__ ("if self._original_cwd: os.chdir(...)") and
\* the finally block of run_make_target: back to the recorded directory, then
\* the exception or the result goes to the caller.
Restore(e) ==
    /\ pc[e] = "restore"
    /\ UNCHANGED asideVars
    /\ running = e
    /\ cwd' = IF original_cwd[e] # NonePath THEN original_cwd[e] ELSE cwd
    /\ pc' = [pc EXCEPT ![e] = "done"]
    /\ cwdAtReturn' = [cwdAtReturn EXCEPT ![e] = cwd']
    /\ running' = NoTask
    /\ UNCHANGED << impl, arguments, target, timeout, base_dir, original_cwd, outcome,
                    child, returncode, stdout, stderr, text, changed, spawnCount,
                    spawnArg, spawnCwd >>

----------------------------------------------------------------------------
(* The path guard called on its own *)

ValidatePath ==
    /\ pv_result = NotCalled
    /\ pv_result' = get_validated_path(pv_base, pv_subpath)
    /\ UNCHANGED << pv_base, pv_subpath >>
    /\ UNCHANGED notPathVars

\* the next call, with other arguments
NextPath ==
    /\ pv_result # NotCalled
    /\ pv_base' \in BasePaths
    /\ pv_subpath' \in SubPaths
    /\ pv_result' = NotCalled
    /\ UNCHANGED notPathVars

----------------------------------------------------------------------------
(* The environment of the make process *)

\* key.startswith(("LD_", "DYLD_", "PATH"))
UnsafePrefixes ==
    { <<"L", "D", "_">>, <<"D", "Y", "L", "D", "_">>, <<"P", "A", "T", "H">> }

IsUnsafe(key) == \E prefix \in UnsafePrefixes : StartsWith(key, prefix)

\* The copy forgotten: the keys are deleted from os.environ itself.
get_safe_environment_NoCopy(environ_) ==
    LET kept == { key \in DOMAIN environ_ : ~IsUnsafe(key) }
        env_ == [key \in kept |-> environ_[key]]
    IN  [env |-> env_, environ |-> env_]

\* get_safe_environment(): a copy of os.environ, with every key deleted that
\* starts with one of the prefixes.  Gives the mapping returned and os.environ
\* as the call leaves it.
get_safe_environment(environ_) ==
    LET kept == { key \in DOMAIN environ_ : ~IsUnsafe(key) }
    IN  [env |-> [key \in kept |-> environ_[key]], environ |-> environ_]

\* Names of environment variables: PATH, PATHX, LD_P, DYLD_I, which start with
\* a prefix, and LDF, DYLD, H, XPATH, which do not.
EnvKeys ==
    { <<"P", "A", "T", "H">>, <<"P", "A", "T", "H", "X">>,
      <<"L", "D", "_", "P">>, <<"D", "Y", "L", "D", "_", "I">>,
      <<"L", "D", "F">>, <<"D", "Y", "L", "D">>, <<"H">>,
      <<"X", "P", "A", "T", "H">> }

EnvValues == {"u", "v"}

\* every environment over these names and values
Environments == UNION { [keys -> EnvValues] : keys \in SUBSET EnvKeys }

\* no mapping: get_safe_environment has not been called
NoEnv == [key \in { <<"none">> } |-> "none"]

GetSafeEnvironment ==
    /\ env = NoEnv
    /\ LET r == get_safe_environment(environ)
       IN  /\ env' = r.env
           /\ environ' = r.environ
    /\ ambient' = environ
    /\ UNCHANGED notEnvVars

----------------------------------------------------------------------------
(* Specifications *)

InitExec ==
    /\ cwd = Home
    /\ running = NoTask
    /\ pc = [e \in Execs |-> "idle"]
    /\ impl = [e \in Execs |-> "mgr"]
    /\ arguments = [e \in Execs |-> NoCall]
    /\ target = [e \in Execs |-> <<>>]
    /\ timeout = [e \in Execs |-> DefaultTimeout]
    /\ base_dir = [e \in Execs |-> DirA]
    /\ original_cwd = [e \in Execs |-> NonePath]
    /\ outcome = [e \in Execs |-> "none"]
    /\ child = [e \in Execs |-> "none"]
    /\ returncode = [e \in Execs |-> 0]
    /\ stdout = [e \in Execs |-> <<>>]
    /\ stderr = [e \in Execs |-> <<>>]
    /\ text = [e \in Execs |-> <<>>]
    /\ changed = [e \in Execs |-> FALSE]
    /\ spawnCount = [e \in Execs |-> 0]
    /\ spawnArg = [e \in Execs |-> <<>>]
    /\ spawnCwd = [e \in Execs |-> NonePath]
    /\ cwdAtReturn = [e \in Execs |-> NonePath]

InitPath ==
    /\ pv_base = <<>>
    /\ pv_subpath = NoSubpath
    /\ pv_result = NotCalled

InitFiles == makefile = <<>>

\* the process was started with PATH and H set
InitEnv ==
    /\ environ = [key \in { <<"P", "A", "T", "H">>, <<"H">> } |-> "u"]
    /\ env = NoEnv
    /\ ambient = NoEnv

\* no text is being scanned
InitScan ==
    /\ lineNo = 0
    /\ targets = <<>>
    /\ current_comment = <<>>
    /\ current_description = NoneStr
    /\ parse_pc = "idle"
    /\ returned = <<>>

Init ==
    /\ InitExec /\ InitPath /\ InitFiles /\ InitEnv /\ content = <<>> /\ InitScan
    /\ resources = NotListed
    /\ read = NotRead

\* One step of task e, its calls drawn from the set calls and the output of
\* its make process from the set outs.
Step(e, calls, outs) ==
    \/ \E c \in calls : CallTool(e, c)
    \/ AEnter(e)
    \/ RunTarget(e)
    \/ RunMakeTarget(e)
    \/ Spawn(e)
    \/ WaitFor(e)
    \/ \E code \in ExitCodes, out \in outs, err \in outs :
          ChildExit(e, code, out, err)
    \/ Communicated(e)
    \/ TimedOut(e)
    \/ Cancel(e)
    \/ Restore(e)

\* Requests in flight together on one event loop.
Next == \E e \in Execs : Step(e, ConcCalls, { <<"o">> })

Spec == Init /\ [][Next]_vars

\* What the event loop does for task e without anything from outside: it runs
\* a task that is ready, completes create_subprocess_exec, hands over the
\* output of a process that has ended, and fires the timer of wait_for.
Progress(e) ==
    \/ AEnter(e)
    \/ RunTarget(e)
    \/ RunMakeTarget(e)
    \/ Spawn(e)
    \/ WaitFor(e)
    \/ Communicated(e)
    \/ TimedOut(e)
    \/ Restore(e)

\* The event loop keeps running: no fairness for the caller (CallTool,
\* Cancel) nor for the make process (ChildExit).
SpecLive == Spec /\ \A e \in Execs : WF_vars(Progress(e))

\* A single request, over every target string and timeout argument.
NextRun == Step("t1", RunCalls, Outputs)

SpecRun == Init /\ [][NextRun]_vars

\* The path guard over every base and subpath within the bounds.
NextGuard == ValidatePath \/ NextPath

SpecPath == Init /\ [][NextGuard]_vars

\* get_safe_environment in every environment over EnvKeys.
InitAnyEnv ==
    /\ InitExec /\ InitPath /\ InitFiles /\ content = <<>> /\ InitScan
    /\ resources = NotListed
    /\ read = NotRead
    /\ environ \in Environments
    /\ env = NoEnv
    /\ ambient = NoEnv

NextEnv == GetSafeEnvironment

SpecEnv == InitAnyEnv /\ [][NextEnv]_vars

\* The parser on every text of Texts, called twice on each.
InitAnyText ==
    /\ InitExec /\ InitPath /\ InitFiles /\ InitEnv /\ InitScan
    /\ resources = NotListed
    /\ read = NotRead
    /\ content \in Texts

NextParse == ParseStart \/ ParseLine \/ ParseReturn

SpecParse == InitAnyText /\ [][NextParse]_vars

\* list-targets, an unknown tool and the resource listing over every Makefile
\* of Files.
InitAnyFile ==
    /\ InitExec /\ InitPath /\ InitEnv /\ content = <<>> /\ InitScan
    /\ resources = NotListed
    /\ read = NotRead
    /\ makefile \in Files

NextCatalog ==
    \/ \E c \in ListCalls : CallTool("t1", c)
    \/ \E i \in {"mgr", "srv"} : ListResources(i)

SpecCatalog == InitAnyFile /\ [][NextCatalog]_vars

\* Reading every URI of Uris, as a string and as a parsed URL, over every
\* Makefile of at most one line and every longer one that begins with "a:".
InitAnyRead ==
    /\ InitAnyFile
    /\ Len(makefile) <= 1 \/ makefile[1] = <<"a", ":">>

NextRead ==
    \E i \in {"mgr", "srv"}, uri \in Uris, isStr \in BOOLEAN :
        ReadResource(i, uri, isStr)

SpecRead == InitAnyRead /\ [][NextRead]_vars

----------------------------------------------------------------------------
(* The claims *)

\* run_target / run_make_target was entered: the request ended in one of the
\* ways only they produce.
RunEntered(e) ==
    outcome[e] \in {"InvalidTarget", "SpawnFailed", "Completed", "DecodeError",
                    "TargetExecutionFailed", "ExecutionTimeout", "Cancelled"}

\* C1: when a request that changed the working directory gives control back
\* to its caller, on any exit path, the working directory is the one recorded
\* on entry.
C1_CwdRestoredOnReturn ==
    \A e \in Execs :
        pc[e] = "done" /\ changed[e] => cwdAtReturn[e] = original_cwd[e]

\* Two requests have returned after changing directory, one by timeout and one
\* by cancellation, each to the directory it recorded, which is not the
\* Makefile directory it had changed into.
C1_Witness ==
    \E e1, e2 \in Execs :
        /\ outcome[e1] = "ExecutionTimeout" /\ outcome[e2] = "Cancelled"
        /\ \A e \in {e1, e2} :
              /\ pc[e] = "done" /\ changed[e]
              /\ cwdAtReturn[e] = original_cwd[e]
              /\ cwdAtReturn[e] # base_dir[e]

\* C2: when a request has failed with the timeout error, its make process is
\* no longer running.
C2_NoChildAfterTimeout ==
    \A e \in Execs :
        pc[e] = "done" /\ outcome[e] = "ExecutionTimeout" => child[e] # "running"

\* C3: when a cancelled request has finished unwinding, its make process is no
\* longer running.
C3_NoChildAfterCancel ==
    \A e \in Execs :
        pc[e] = "done" /\ outcome[e] = "Cancelled" => child[e] # "running"

\* C4: make is spawned only for a name that matches the pattern; a run with a
\* matching name makes exactly one spawn, and a run with any other name fails
\* with the invalid-target error and no spawn.
C4_SpawnIffNameMatches ==
    \A e \in Execs :
        /\ spawnCount[e] > 0 => VALID_TARGET_PATTERN_match(target[e])
        /\ pc[e] = "done" /\ RunEntered(e) =>
              IF VALID_TARGET_PATTERN_match(target[e])
              THEN spawnCount[e] = 1
              ELSE outcome[e] = "InvalidTarget" /\ spawnCount[e] = 0

\* A run with the matching name "a-" has ended after exactly one spawn.
C4_Witness ==
    \E e \in Execs :
        /\ pc[e] = "done" /\ outcome[e] = "Completed"
        /\ target[e] = <<"a", "-">>
        /\ spawnCount[e] = 1

\* C5: every string given to make as the target begins with an alphanumeric
\* character and holds only characters of [A-Za-z0-9_-].
C5_SpawnArgInNameClass ==
    \A e \in Execs :
        spawnCount[e] > 0 =>
            /\ Len(spawnArg[e]) >= 1
            /\ spawnArg[e][1] \in AlnumChars
            /\ \A i \in 1..Len(spawnArg[e]) : spawnArg[e][i] \in NameClassChars

\* C6: get_validated_path fails with SecurityError when base / subpath
\* resolves outside the resolved base tree, and otherwise returns that resolved
\* path, which lies within the resolved base.
C6_PathGuardDecidesContainment ==
    (pv_result # NotCalled /\ ~pv_subpath.none) =>
        LET base      == Resolve(pv_base)
            requested == Resolve(Join(base, pv_subpath))
        IN  IF IsWithin(requested, base)
            THEN /\ pv_result.ok
                 /\ pv_result.path = requested
                 /\ IsWithin(pv_result.path, base)
            ELSE /\ ~pv_result.ok
                 /\ pv_result.error = "SecurityError"

\* The requested path is, or lies beneath, a sibling of the base whose name
\* begins with the name of the base's last segment.
IsPrefixSibling(requested, base) ==
    /\ Len(base) >= 1
    /\ Len(requested) >= Len(base)
    /\ SubSeq(requested, 1, Len(base) - 1) = SubSeq(base, 1, Len(base) - 1)
    /\ requested[Len(base)] # base[Len(base)]
    /\ StartsWith(requested[Len(base)], base[Len(base)])

\* C7: a subpath that resolves to a sibling directory sharing a string prefix
\* with the base (base /a/b, resolved /a/bb), or beneath it, is refused.
C7_PrefixSiblingRefused ==
    (pv_result # NotCalled /\ ~pv_subpath.none) =>
        LET base      == Resolve(pv_base)
            requested == Resolve(Join(base, pv_subpath))
        IN  IsPrefixSibling(requested, base) => ~pv_result.ok

\* the requests between their own directory change and their own restore
InDirectory == { e \in Execs : changed[e] /\ pc[e] # "done" }

\* C8: never are two requests at once between their own directory change and
\* their own restore.
C8_NoTwoInDirectory == Cardinality(InDirectory) <= 1

\* asyncio.wait_for has been called with timeout[e]
Bounded(e) ==
    \/ pc[e] = "await_communicate"
    \/ outcome[e] \in {"Completed", "DecodeError", "TargetExecutionFailed",
                       "ExecutionTimeout"}
    \/ outcome[e] = "Cancelled" /\ child[e] # "killed"

\* C9: the timeout that bounds the make process is never above 3600 seconds.
C9_TimeoutAtMostCeiling ==
    \A e \in Execs : Bounded(e) => timeout[e] <= 3600

\* A caller who asked for 3601 seconds has its process bounded by 3600.
C9_Witness ==
    \E e \in Execs :
        /\ pc[e] = "await_communicate"
        /\ arguments[e].timeout = IntTimeout(3601)
        /\ timeout[e] = 3600

\* C10: the timeout that bounds the make process lies in 1..3600, whatever
\* integer the caller gave.
C10_TimeoutInRange ==
    \A e \in Execs : Bounded(e) => timeout[e] \in 1..3600

\* wait_for handed the output of the ended process to the task
Collected(e) ==
    outcome[e] \in {"Completed", "TargetExecutionFailed", "DecodeError"}

\* C11: a run returns normally exactly when its process ended with code 0
\* within the timeout, and then returns exactly the captured standard output;
\* a process that ended with another code never gives a result but the
\* target-execution-failed error carrying the captured standard error.
C11_ReturnsStdoutIffExitZero ==
    \A e \in Execs :
        /\ pc[e] = "done" /\ Collected(e) =>
              IF returncode[e] = 0
              THEN /\ CallerSees(impl[e], outcome[e]) = "none"
                   /\ text[e] = stdout[e]
              ELSE /\ outcome[e] = "TargetExecutionFailed"
                   /\ Contains(text[e], Strip(stderr[e]))
        /\ pc[e] = "done" /\ RunEntered(e)
              /\ CallerSees(impl[e], outcome[e]) = "none" =>
              Collected(e) /\ child[e] = "exited" /\ returncode[e] = 0

\* C12: when the make process of a run-target call ends with a non-zero code,
\* the message the caller receives holds both that exit code and the captured
\* standard error.
C12_FailureMessageHasCodeAndStderr ==
    \A e \in Execs :
        pc[e] = "done" /\ outcome[e] = "TargetExecutionFailed" =>
            /\ Contains(text[e], <<ToString(returncode[e])>>)
            /\ Contains(text[e], Strip(stderr[e]))

\* C13: every tool call that fails reaches its caller as a ValueError,
\* whichever layer the failure arose in.
C13_EveryFailureIsValueError ==
    \A e \in Execs :
        pc[e] = "done" /\ outcome[e] # "Cancelled"
            /\ CallerSees(impl[e], outcome[e]) # "none" =>
            IsValueError(CallerSees(impl[e], outcome[e]))

\* C14: get_safe_environment returns a mapping whose keys are exactly the keys
\* of the ambient environment that start with none of LD_, DYLD_ and PATH,
\* each with its ambient value, and leaves the ambient environment as it was.
C14_SafeEnvironment ==
    env # NoEnv =>
        /\ DOMAIN env =
              { key \in DOMAIN ambient :
                  /\ ~StartsWith(key, <<"L", "D", "_">>)
                  /\ ~StartsWith(key, <<"D", "Y", "L", "D", "_">>)
                  /\ ~StartsWith(key, <<"P", "A", "T", "H">>) }
        /\ \A key \in DOMAIN env : env[key] = ambient[key]
        /\ environ = ambient

\* Called with all eight names set, it returned LDF, DYLD, H and XPATH.
C14_Witness ==
    /\ env # NoEnv
    /\ DOMAIN ambient = EnvKeys
    /\ DOMAIN env = { <<"L", "D", "F">>, <<"D", "Y", "L", "D">>, <<"H">>,
                      <<"X", "P", "A", "T", "H">> }

\* the targets of every list returned so far
Emitted ==
    UNION { { returned[k][i] : i \in 1..Len(returned[k]) } :
              k \in 1..Len(returned) }

\* the line that gave target t, as the loop sees it
LineOf(t) == Strip(content[t.line])

\* C15 as stated: a target whose line holds "##" has as its description the
\* trimmed text after the first "##", whatever comments came before it.
C15_InlineDescriptionWins ==
    \A t \in Emitted :
        Contains(LineOf(t), <<"#", "#">>) =>
            t.description = Strip(AfterFirst(LineOf(t), <<"#", "#">>))

\* C15, amended: a target whose line holds "##" followed by text that is not
\* empty once trimmed has that trimmed text as its description, whatever
\* comments came before it.
C15_NonEmptyInlineDescriptionWins ==
    \A t \in Emitted :
        (/\ Contains(LineOf(t), <<"#", "#">>)
         /\ Strip(AfterFirst(LineOf(t), <<"#", "#">>)) # <<>>)
        => t.description = Strip(AfterFirst(LineOf(t), <<"#", "#">>))

\* "# c" followed by "a: 7 ## d" gave the target a with the description "d".
C15_Witness ==
    /\ Len(content) >= 2
    /\ content[1] = <<"#", " ", "c">>
    /\ content[2] = <<"a", ":", " ", "7", " ", "#", "#", " ", "d">>
    /\ \E t \in Emitted :
          t.line = 2 /\ t.name = <<"a">> /\ t.description = <<"d">>

\* C16: no target comes from a pattern rule, a special target, or an
\* assignment line holding ":=".
C16_NoTargetFromRuleOrAssignment ==
    \A t \in Emitted :
        /\ ~StartsWith(LineOf(t), <<"%">>)
        /\ ~StartsWith(LineOf(t), <<".">>)
        /\ ~Contains(LineOf(t), <<":", "=">>)

\* C17: the scan goes through every line of every text and returns; an empty
\* text gives the empty list; two scans of one text return the same list.
C17_ParserTotalAndDeterministic ==
    /\ parse_pc = "scan" => lineNo \in 1..(Len(content) + 1)
    /\ parse_pc = "returned" => lineNo = Len(content) + 1
    /\ content = <<>> => \A k \in 1..Len(returned) : returned[k] = <<>>
    /\ Len(returned) = 2 => returned[1] = returned[2]

\* A text of several lines was scanned twice, each time giving the same two
\* targets or more.
C17_Witness ==
    /\ Len(returned) = 2
    /\ Len(content) >= 2
    /\ Len(returned[1]) >= 2
    /\ returned[2] = returned[1]

\* C18: list-targets called without a pattern, the argument object empty or
\* absent included, succeeds on a Makefile that can be read and returns one
\* "name: description" line for each parsed target, in parse order.
C18_PatternOptional ==
    \A e \in Execs :
        (/\ pc[e] = "done"
         /\ arguments[e].name = "list-targets"
         /\ ~arguments[e].hasPattern
         /\ Readable(makefile))
        => /\ outcome[e] = "Listed"
           /\ text[e] = Listing(TargetsOf(makefile))

\* C19: a call of a tool that is neither list-targets nor run-target fails
\* with the unknown-tool error whatever its arguments, without a directory
\* change or a spawn.
C19_UnknownToolAlwaysUnknown ==
    \A e \in Execs :
        (/\ pc[e] = "done"
         /\ arguments[e].name \notin {"list-targets", "run-target"})
        => /\ outcome[e] = "UnknownTool"
           /\ ~changed[e]
           /\ spawnCount[e] = 0

\* x is one of the resources listed
Lists(x) == \E k \in 1..Len(resources.uris) : resources.uris[k] = x

\* C20: the listing holds the Makefile resource exactly when the Makefile
\* exists, and the targets resource exactly when the Makefile exists and
\* parsing it gives at least one target; never the second without the first.
C20_ResourcesFollowMakefile ==
    resources # NotListed =>
        /\ Lists(MakefileUri) <=> Exists(makefile)
        /\ Lists(TargetsUri) <=>
              (Exists(makefile) /\ Readable(makefile)
                 /\ TargetsOf(makefile) # <<>>)
        /\ Lists(TargetsUri) => Lists(MakefileUri)

\* C21: reading fails, and gives no content, for every URI whose scheme is
\* not make and for every URI whose normalized path is neither
\* current/makefile nor targets, in both implementations, for strings and for
\* parsed URLs.
C21_UnknownUriFails ==
    (/\ read # NotRead
     /\ \/ Lower(read.uri.scheme) # "make"
        \/ read.norm \notin { <<"current", "makefile">>, <<"targets">> })
    => ~read.ok

\* C29: reading the Makefile resource of a Makefile that can be read returns
\* the file's content exactly when some line of it is not blank and no line
\* both starts with "." once trimmed and holds no colon; otherwise it fails.
C29_MakefileReadIffSane ==
    (/\ read # NotRead
     /\ Lower(read.uri.scheme) = "make"
     /\ read.norm = <<"current", "makefile">>
     /\ Readable(makefile))
    => /\ read.ok <=>
             /\ \E k \in 1..Len(makefile) : Strip(makefile[k]) # <<>>
             /\ \A k \in 1..Len(makefile) :
                   \/ ~StartsWith(Strip(makefile[k]), <<".">>)
                   \/ Contains(makefile[k], <<":">>)
       /\ read.content = IF read.ok THEN makefile ELSE <<>>

\* Read through both implementations: "a:" then ".a:7" came back as it is,
\* and "a:" then " .a" was refused.
C29_Witness ==
    /\ read # NotRead
    /\ read.norm = <<"current", "makefile">>
    /\ \/ /\ makefile = << <<"a", ":">>, <<".", "a", ":", "7">> >>
          /\ read.ok /\ read.content = makefile
       \/ /\ makefile = << <<"a", ":">>, <<" ", ".", "a">> >>
          /\ ~read.ok

\* C22: an execution spawns only after its directory change and before its
\* restore, ends with one outcome, and once it has changed directory it
\* always reaches its end, restored, even when the make process never exits.
C22_OrderedAndTerminates ==
    /\ [][\A e \in Execs :
             spawnCount'[e] # spawnCount[e] =>
                 changed[e] /\ pc[e] # "done" /\ pc'[e] # "done"]_vars
    /\ [](\A e \in Execs : pc[e] = "done" /\ changed[e] =>
             outcome[e] # "none" /\ cwdAtReturn[e] = original_cwd[e])
    /\ \A e \in Execs : changed[e] ~> pc[e] = "done"

\* An execution whose make process never exited has ended by the timeout with
\* the directory restored.
C22_Witness ==
    \E e \in Execs :
        /\ pc[e] = "done" /\ changed[e] /\ spawnCount[e] = 1
        /\ child[e] = "running"
        /\ outcome[e] = "ExecutionTimeout"
        /\ cwdAtReturn[e] = original_cwd[e]

\* C23: a run that spawned has one outcome, decided by what wait_for saw
\* first: with the output of the ended process in hand the outcome is
\* Completed for exit code 0 and TargetExecutionFailed for any other code,
\* never the timeout error; when the timeout fired first the outcome is the
\* timeout error and the caller gets an error with the timeout message, no
\* standard output.
C23_ExitAndTimeoutRaced ==
    \A e \in Execs :
        /\ (pc[e] = "done" /\ Collected(e)) =>
              /\ child[e] = "exited"
              /\ outcome[e] = IF returncode[e] = 0
                              THEN "Completed" ELSE "TargetExecutionFailed"
        /\ (pc[e] = "done" /\ outcome[e] = "ExecutionTimeout") =>
              /\ CallerSees(impl[e], outcome[e]) # "none"
              /\ text[e] = <<"Target execution exceeded ",
                             ToString(timeout[e]), "s timeout">>

\* C24: every make process was created in the validated Makefile directory
\* of the request that created it, whatever other requests were under way.
C24_SpawnedInOwnDirectory ==
    \A e \in Execs :
        spawnCount[e] > 0 =>
            spawnCwd[e] = IF impl[e] = "mgr"
                          THEN get_validated_path(base_dir[e], NoSubpath).path
                          ELSE base_dir[e]

\* Two requests for different Makefile directories overlap: the make process
\* of the first is still running when the second has created its own, each in
\* its own directory.
C24_Witness ==
    \E e1, e2 \in Execs :
        /\ child[e1] = "running" /\ pc[e1] = "await_communicate"
        /\ child[e2] = "running"
        /\ spawnCwd[e1] = base_dir[e1] /\ spawnCwd[e2] = base_dir[e2]
        /\ spawnCwd[e1] # spawnCwd[e2]

\* C25: when every request that was started has returned, the working
\* directory is the one the server had before the first of them started.
C25_CwdAfterAllIsInitial ==
    (/\ \A e \in Execs : pc[e] \in {"idle", "done"}
     /\ \E e \in Execs : pc[e] = "done" /\ changed[e]) =>
        cwd = Home

\* C26: in every list the parser returns, each name matches the target-name
\* pattern and is the trimmed text before the first colon of the line that
\* gave it, the targets stand in the order of their lines, and every line
\* that is not a comment and has such a name before its first colon gave a
\* target, a name that came before included.
C26_NamesInLineOrder ==
    \A k \in 1..Len(returned) :
        LET r == returned[k]
            Name(n) == Strip(BeforeFirst(content[n], <<":">>))
        IN  /\ \A i \in 1..Len(r) :
                  /\ r[i].line \in 1..Len(content)
                  /\ VALID_TARGET_PATTERN_match(r[i].name)
                  /\ r[i].name = Name(r[i].line)
            /\ \A i, j \in 1..Len(r) : i < j => r[i].line < r[j].line
            /\ { r[i].line : i \in 1..Len(r) } =
                  { n \in 1..Len(content) :
                      /\ ~StartsWith(Strip(content[n]), <<"#">>)
                      /\ Contains(content[n], <<":">>)
                      /\ VALID_TARGET_PATTERN_match(Name(n)) }

\* The text " 7a : a", "a:", "a:" gave the targets 7a, a and a, in this order.
C26_Witness ==
    /\ content = << <<" ", "7", "a", " ", ":", " ", "a">>, <<"a", ":">>,
                    <<"a", ":">> >>
    /\ Len(returned) >= 1
    /\ Len(returned[1]) = 3
    /\ returned[1][1].name = <<"7", "a">>
    /\ returned[1][2].name = <<"a">>
    /\ returned[1][3].name = <<"a">>

\* C27: no target comes from a line of the text that starts with a tab, with
\* or without a colon in it.
C27_NoTargetFromRecipeLine ==
    \A t \in Emitted : ~StartsWith(content[t.line], <<"\t">>)

\* C28: between two lines of the scan the inline description is absent and the
\* pending comments are the texts of the unbroken run of comment lines just
\* before the next line, and nothing older; so a target without inline text
\* has as its description the space-joined texts of the comment lines that
\* stand immediately before its line, or none.
C28_NoDescriptionLeak ==
    LET IsComment(n) == StartsWith(Strip(content[n]), <<"#">>)
        First(n) ==
            CHOOSE s \in 1..n :
                /\ \A i \in s..(n - 1) : IsComment(i)
                /\ s = 1 \/ ~IsComment(s - 1)
        CommentsBefore(n) ==
            [i \in 1..(n - First(n)) |->
                Strip(From(Strip(content[First(n) + i - 1]), 1))]
    IN  /\ parse_pc = "scan" =>
              /\ current_description = NoneStr
              /\ current_comment = CommentsBefore(lineNo)
        /\ \A t \in Emitted :
              (\/ ~Contains(LineOf(t), <<"#", "#">>)
               \/ Strip(AfterFirst(LineOf(t), <<"#", "#">>)) = <<>>)
              => t.description =
                    Or(JoinWith(<<" ">>, CommentsBefore(t.line)), NoneStr)

\* In "# c", "%.a:", "a:" the pattern rule gave no target and took the
\* comment with it: the target a has no description.
C28_Witness ==
    /\ content = << <<"#", " ", "c">>, <<"%", ".", "a", ":">>, <<"a", ":">> >>
    /\ Len(returned) >= 1
    /\ returned[1] = << [name |-> <<"a">>, description |-> NoneStr, line |-> 3] >>

\* C30: list-targets with a pattern other than "*" on a Makefile that can be
\* read returns, for a pattern that compiles, one line "name: description"
\* ("No description" for a target without one) for each parsed target whose
\* name holds a match of the pattern at any position, in parse order, and no
\* other line; for a pattern that does not compile it fails with the
\* invalid-pattern error and no listing.
C30_PatternFiltersListing ==
    \A e \in Execs :
        (/\ pc[e] = "done"
         /\ arguments[e].name = "list-targets"
         /\ arguments[e].hasPattern
         /\ arguments[e].pattern # <<"*">>
         /\ Readable(makefile))
        => LET p == arguments[e].pattern
               Found(t) ==
                   \E i \in 1..Len(t.name) :
                       \E j \in i..Len(t.name) : SubSeq(t.name, i, j) = p
               kept == SelectSeq(TargetsOf(makefile), Found)
               Shown(t) ==
                   t.name \o <<":", " ">>
                     \o (IF t.description = NoneStr
                         THEN <<"No description">> ELSE t.description)
           IN  IF p = <<"(">>
               THEN /\ outcome[e] = "InvalidPattern"
                    /\ CallerSees(impl[e], outcome[e]) # "none"
                    /\ text[e] = <<"Invalid pattern: ", "(">>
               ELSE /\ outcome[e] = "Listed"
                    /\ text[e] =
                          JoinWith(<<"\n">>,
                                   [k \in 1..Len(kept) |-> Shown(kept[k])])

\* The Makefile " 7a : a", "a: 7 ## d" listed with the pattern "a": both
\* targets, 7a with the match in second place, in the order of the file.
C30_Witness ==
    \E e \in Execs :
        /\ pc[e] = "done"
        /\ arguments[e].name = "list-targets"
        /\ arguments[e].pattern = <<"a">>
        /\ makefile = << <<" ", "7", "a", " ", ":", " ", "a">>,
                         <<"a", ":", " ", "7", " ", "#", "#", " ", "d">> >>
        /\ text[e] = <<"7", "a", ":", " ", "No description", "\n",
                       "a", ":", " ", "d">>

\* C31: no parsed target has the empty string as its description: the
\* description is absent exactly when the text after "##" on its line is
\* missing or empty and the joined text of the comment lines just before it
\* is empty too, and list-targets prints "No description" for exactly these
\* targets, the inline text or else the comment text for the others.
C31_DescriptionNeverEmpty ==
    \A e \in Execs :
        (/\ pc[e] = "done"
         /\ arguments[e].name = "list-targets"
         /\ outcome[e] = "Listed"
         /\ (~arguments[e].hasPattern \/ arguments[e].pattern = <<"*">>))
        => LET ts == TargetsOf(makefile)
               IsComment(n) == StartsWith(Strip(makefile[n]), <<"#">>)
               First(n) ==
                   CHOOSE s \in 1..n :
                       /\ \A i \in s..(n - 1) : IsComment(i)
                       /\ s = 1 \/ ~IsComment(s - 1)
               Plain(n) ==
                   JoinWith(<<" ">>,
                            [i \in 1..(n - First(n)) |->
                                Strip(From(Strip(makefile[First(n) + i - 1]), 1))])
               Inline(n) ==
                   IF Contains(makefile[n], <<"#", "#">>)
                   THEN Strip(AfterFirst(Strip(makefile[n]), <<"#", "#">>))
                   ELSE <<>>
               Bare(n) == Inline(n) = <<>> /\ Plain(n) = <<>>
               Shown(t) ==
                   t.name \o <<":", " ">>
                     \o (IF Bare(t.line) THEN <<"No description">>
                         ELSE IF Inline(t.line) # <<>> THEN Inline(t.line)
                         ELSE Plain(t.line))
           IN  /\ \A i \in 1..Len(ts) :
                     /\ ts[i].description # <<>>
                     /\ ts[i].description = NoneStr <=> Bare(ts[i].line)
               /\ text[e] =
                     JoinWith(<<"\n">>, [i \in 1..Len(ts) |-> Shown(ts[i])])

\* The Makefile "#", "a:##", an empty comment and an empty inline text, was
\* listed: the target a is printed with "No description".
C31_Witness ==
    \E e \in Execs :
        /\ pc[e] = "done"
        /\ arguments[e].name = "list-targets"
        /\ outcome[e] = "Listed"
        /\ ~arguments[e].hasPattern
        /\ makefile = << <<"#">>, <<"a", ":", "#", "#">> >>
        /\ text[e] = <<"a", ":", " ", "No description">>

\* C32: a run-target request that is refused for a missing target argument
\* or for an invalid target name has at no point moved the working directory
\* away from the one it found.
C32_RejectedNeverChangesCwd ==
    \A e \in Execs :
        outcome[e] \in {"TargetRequired", "InvalidTarget"} =>
            \/ ~changed[e]
            \/ original_cwd[e] =
                  IF impl[e] = "mgr"
                  THEN get_validated_path(base_dir[e], NoSubpath).path
                  ELSE base_dir[e]

====
